---------------------------- MODULE Spec2Model ----------------------------
(***************************************************************************)
(* Availability, booking ledger and session access gate of Chattri.        *)
(*                                                                         *)
(* Instants are minutes counted from local midnight of day 0 (the code's   *)
(* Date values are milliseconds; every constant it adds is a whole hour).  *)
(* The database tables are sequences of rows; a row's id is its index      *)
(* (generateBookingId / generateSessionId / generateMessageId give fresh   *)
(* ids).  A user is the JWT payload the auth middleware puts in the        *)
(* context: role and metaId (userId and metaId are in one-to-one           *)
(* correspondence, so one field stands for both).                          *)
(***************************************************************************)
EXTENDS Integers, Sequences, FiniteSets, TLC

VARIABLES
    timeSlots,          \* table tutor_time_slots: per tutor, the hours that have
                        \* a row (rows) and those whose row has isAvailable (open)
    unavailableDates,   \* table tutor_unavailable_dates: set of rows
    bookings,           \* table bookings
    sessions,           \* table sessions
    messages,           \* table session_messages
    now,                \* the wall clock read by new Date()
    last,               \* the request answered last and its response
    reqs,               \* requests in flight (concurrent specifications)
    gate,               \* inputs and output of an access computation
    view                \* the body of the response to the last read request

vars == <<timeSlots, unavailableDates, bookings, sessions, messages, now, last, reqs, gate, view>>

db == <<timeSlots, unavailableDates, bookings, sessions, messages>>

----------------------------------------------------------------------------
(* Program constants *)

HOUR == 60

HoursPerDay == 24

DAY == HoursPerDay * HOUR

HalfHour == HOUR \div 2

(* Bounds of the model *)

MaxBookings == 2

MaxTracked == 1

MaxMessages == 1

MaxTicks == 5

MaxRequests == 2

\* messages of one session in SpecMessages
MaxThread == 2

GateMargin == 5

----------------------------------------------------------------------------
(* Inputs *)

Students == {"s1", "s2"}

Tutors == {"t1", "t2"}

Users == [role : {"student"}, metaId : Students] \cup [role : {"tutor"}, metaId : Tutors]

\* hours tutor t1 has opened; t2 keeps the all-closed template of a new tutor
OpenHours == {9, 10}

At(h, m) == h * HOUR + m

\* start instants a student may ask for: on the hour and inside the same hour
StartTimes == {At(9, 0), At(9, HalfHour)}

\* the clock is sampled every hour from 07:30: for a session at 09:30 the
\* samples are the boundaries of its access window, for one at 09:00 or
\* 10:00 they lie inside each part of it
ClockStart == At(7, HalfHour)

ClockEnd == ClockStart + MaxTicks * HOUR

BookingIds == 1..MaxBookings

\* ids asked for where at most MaxTracked bookings exist
TrackedIds == 1..MaxTracked

----------------------------------------------------------------------------
(* Date arithmetic *)

getHours(t) == (t \div HOUR) % HoursPerDay

\* new Date(d.getFullYear(), d.getMonth(), d.getDate()): local midnight of d
normalizedDate(t) == (t \div DAY) * DAY

----------------------------------------------------------------------------
(* utils/availability *)

isTimeSlotAvailable(tutorId, startTime) ==
    LET hour == getHours(startTime)
        date == normalizedDate(startTime)
        timeSlot == hour \in timeSlots[tutorId].rows /\ hour \in timeSlots[tutorId].open
        isUnavailable == \E ud \in unavailableDates :
                        ud.tutorId = tutorId /\ normalizedDate(ud.unavailableDate) = date
        existingBooking == \E i \in 1..Len(bookings) :
                        /\ bookings[i].tutorId = tutorId
                        /\ bookings[i].scheduledStartTime = startTime
                        /\ bookings[i].status \in {"pending", "confirmed"}
    IN  IF ~timeSlot THEN FALSE
        ELSE IF isUnavailable THEN FALSE
        ELSE ~existingBooking

\* Number.prototype.toString of an hour: its decimal digits
toString(n) == IF n < 10 THEN <<n>> ELSE <<n \div 10, n % 10>>

\* the order Array.prototype.sort() uses when it is given no comparator:
\* the elements are compared as strings, code unit by code unit
stringLess(a, b) ==
    \E k \in 1..(Len(a) + 1) :
        /\ \A j \in 1..(k - 1) : j <= Len(b) /\ a[j] = b[j]
        /\ \/ k > Len(a) /\ k <= Len(b)
           \/ k <= Len(a) /\ k <= Len(b) /\ a[k] < b[k]

\* hours.sort(): the hours of a set of distinct hours in that order
sort(hours) ==
    CHOOSE seq \in [1..Cardinality(hours) -> hours] :
        \A j, k \in 1..Cardinality(hours) :
            j < k => stringLess(toString(seq[j]), toString(seq[k]))

\* the resolver with every booking, whatever its status, taken off the
\* template
getTutorAvailableSlotsAnyStatus(tutorId, date) ==
    LET isUnavailable == \E ud \in unavailableDates :
            /\ ud.tutorId = tutorId
            /\ normalizedDate(ud.unavailableDate) = normalizedDate(date)
        availableSlots == timeSlots[tutorId].rows \cap timeSlots[tutorId].open
        bookedHours == {getHours(bookings[i].scheduledStartTime) :
            i \in {j \in 1..Len(bookings) :
                /\ bookings[j].tutorId = tutorId
                /\ bookings[j].scheduledStartTime >= normalizedDate(date)
                /\ bookings[j].scheduledStartTime <= normalizedDate(date) + DAY - 1}}
    IN  IF isUnavailable THEN <<>> ELSE sort(availableSlots \ bookedHours)

\* the resolver with only confirmed bookings taken off the template
getTutorAvailableSlotsConfirmedOnly(tutorId, date) ==
    LET isUnavailable == \E ud \in unavailableDates :
            /\ ud.tutorId = tutorId
            /\ normalizedDate(ud.unavailableDate) = normalizedDate(date)
        availableSlots == timeSlots[tutorId].rows \cap timeSlots[tutorId].open
        bookedHours == {getHours(bookings[i].scheduledStartTime) :
            i \in {j \in 1..Len(bookings) :
                /\ bookings[j].tutorId = tutorId
                /\ bookings[j].scheduledStartTime >= normalizedDate(date)
                /\ bookings[j].scheduledStartTime <= normalizedDate(date) + DAY - 1
                /\ bookings[j].status = "confirmed"}}
    IN  IF isUnavailable THEN <<>> ELSE sort(availableSlots \ bookedHours)

getTutorAvailableSlots(tutorId, date) ==
    LET isUnavailable == \E ud \in unavailableDates :
            /\ ud.tutorId = tutorId
            /\ normalizedDate(ud.unavailableDate) = normalizedDate(date)
        availableSlots == timeSlots[tutorId].rows \cap timeSlots[tutorId].open
        startOfDay == normalizedDate(date)
        endOfDay == normalizedDate(date) + DAY - 1
        existingBookings == {i \in 1..Len(bookings) :
            /\ bookings[i].tutorId = tutorId
            /\ bookings[i].scheduledStartTime >= startOfDay
            /\ bookings[i].scheduledStartTime <= endOfDay
            /\ bookings[i].status \in {"pending", "confirmed"}}
        bookedHours == {getHours(bookings[i].scheduledStartTime) : i \in existingBookings}
        availableHours == {hour \in availableSlots : hour \notin bookedHours}
    IN  IF isUnavailable THEN <<>> ELSE sort(availableHours)

\* an update of the row of one hour that does nothing when the row is missing
updateExisting(slots, hour, isAvailable) ==
    [rows |-> slots.rows,
     open |-> IF hour \notin slots.rows THEN slots.open
              ELSE IF isAvailable THEN slots.open \cup {hour} ELSE slots.open \ {hour}]

\* db.tutorTimeSlot.upsert for one hour, applied to the rows of one tutor
upsert(slots, hour, isAvailable) ==
    [rows |-> slots.rows \cup {hour},
     open |-> IF isAvailable THEN slots.open \cup {hour} ELSE slots.open \ {hour}]

\* the first `done` passes of the loop of updateTutorAvailability (hours
\* 0 .. done - 1), on the rows of one tutor
RECURSIVE upsertLoop(_, _, _)
upsertLoop(slots, availableHours, done) ==
    IF done = 0 THEN slots
    ELSE upsert(upsertLoop(slots, availableHours, done - 1),
                done - 1, (done - 1) \in availableHours)

updateTutorAvailability(tutorId, availableHours) ==
    [timeSlots EXCEPT ![tutorId] = upsertLoop(timeSlots[tutorId], availableHours, HoursPerDay)]

----------------------------------------------------------------------------
(* Responses *)

Respond(op, result) ==
    last' = [op |-> op, result |-> result]

NULL == 0 - 1

isParticipant(user, booking) ==
    \/ user.role = "student" /\ booking.studentId = user.metaId
    \/ user.role = "tutor" /\ booking.tutorId = user.metaId

UnchangedBut(changed) ==
    /\ ("bookings" \in changed \/ UNCHANGED bookings)
    /\ ("sessions" \in changed \/ UNCHANGED sessions)
    /\ ("messages" \in changed \/ UNCHANGED messages)
    /\ ("timeSlots" \in changed \/ UNCHANGED timeSlots)
    /\ ("unavailableDates" \in changed \/ UNCHANGED unavailableDates)
    /\ ("view" \in changed \/ UNCHANGED view)
    /\ UNCHANGED <<now, reqs, gate>>

----------------------------------------------------------------------------
(* bookings.post('/') *)

createBookingResult(user, tutorId, startTime) ==
    IF user.role # "student" THEN "forbidden"
    ELSE IF tutorId \notin Tutors THEN "not_found"
    ELSE IF ~isTimeSlotAvailable(tutorId, startTime) THEN "slot_unavailable"
    ELSE "created"

NewBooking(user, tutorId, startTime) ==
    [studentId |-> user.metaId, tutorId |-> tutorId,
     scheduledStartTime |-> startTime, scheduledEndTime |-> startTime + HOUR,
     status |-> "pending", cancelledBy |-> "none"]

CreateBooking(user, tutorId, startTime) ==
    LET result == createBookingResult(user, tutorId, startTime) IN
    /\ bookings' = IF result = "created"
                   THEN Append(bookings, NewBooking(user, tutorId, startTime))
                   ELSE bookings
    /\ Respond("create", result)
    /\ UnchangedBut({"bookings"})

----------------------------------------------------------------------------
(* bookings.patch('/:id/accept') *)

\* accept without the check of the booking's status
acceptResultAnyStatus(user, id) ==
    IF user.role # "tutor" THEN "forbidden"
    ELSE IF id \notin 1..Len(bookings) THEN "not_found"
    ELSE IF bookings[id].tutorId # user.metaId THEN "forbidden"
    ELSE "accepted"

acceptResult(user, id) ==
    IF user.role # "tutor" THEN "forbidden"
    ELSE IF id \notin 1..Len(bookings) THEN "not_found"
    ELSE IF bookings[id].tutorId # user.metaId THEN "forbidden"
    ELSE IF bookings[id].status # "pending" THEN "invalid_state"
    ELSE "accepted"

NewSession(bookingId) ==
    [bookingId |-> bookingId, status |-> "scheduled",
     actualStartTime |-> NULL, actualEndTime |-> NULL]

\* the two writes of accept made one after the other, with no transaction:
\* the booking's update stays when the session's creation fails
acceptSequentialWrites(id, fault) ==
    LET duplicate == \E s \in 1..Len(sessions) : sessions[s].bookingId = id
    IN  IF fault \/ duplicate
        THEN [committed |-> FALSE,
              bookings |-> [bookings EXCEPT ![id].status = "confirmed"],
              sessions |-> sessions]
        ELSE [committed |-> TRUE,
              bookings |-> [bookings EXCEPT ![id].status = "confirmed"],
              sessions |-> Append(sessions, NewSession(id))]

\* db.$transaction([booking.update, session.create]): both writes or neither.
\* The second write fails on the unique index sessions_booking_id_key, or on
\* a fault of the store (fault = TRUE); either way the first is rolled back.
acceptTransaction(id, fault) ==
    LET duplicate == \E s \in 1..Len(sessions) : sessions[s].bookingId = id
    IN  IF fault \/ duplicate
        THEN [committed |-> FALSE, bookings |-> bookings, sessions |-> sessions]
        ELSE [committed |-> TRUE,
              bookings |-> [bookings EXCEPT ![id].status = "confirmed"],
              sessions |-> Append(sessions, NewSession(id))]

AcceptBooking(user, id) ==
    LET result == acceptResult(user, id) IN
    IF result # "accepted"
    THEN /\ Respond("accept", result)
         /\ UnchangedBut({})
    ELSE \E fault \in BOOLEAN :
         LET tx == acceptTransaction(id, fault) IN
         /\ bookings' = tx.bookings
         /\ sessions' = tx.sessions
         /\ Respond("accept", IF tx.committed THEN "accepted" ELSE "error")
         /\ UnchangedBut({"bookings", "sessions"})

----------------------------------------------------------------------------
(* bookings.patch('/:id/reject') *)

rejectResult(user, id) ==
    IF user.role # "tutor" THEN "forbidden"
    ELSE IF id \notin 1..Len(bookings) THEN "not_found"
    ELSE IF bookings[id].tutorId # user.metaId THEN "forbidden"
    ELSE IF bookings[id].status # "pending" THEN "invalid_state"
    ELSE "rejected"

RejectBooking(user, id) ==
    LET result == rejectResult(user, id) IN
    /\ bookings' = IF result = "rejected"
                   THEN [bookings EXCEPT ![id].status = "rejected",
                                         ![id].cancelledBy = user.metaId]
                   ELSE bookings
    /\ Respond("reject", result)
    /\ UnchangedBut({"bookings"})

----------------------------------------------------------------------------
(* bookings.patch('/:id/cancel') *)

\* cancel without the check of the caller
cancelResultAnyCaller(user, id) ==
    IF id \notin 1..Len(bookings) THEN "not_found"
    ELSE IF bookings[id].status \notin {"pending", "confirmed"} THEN "invalid_state"
    ELSE "cancelled"

cancelResult(user, id) ==
    IF id \notin 1..Len(bookings) THEN "not_found"
    ELSE IF ~isParticipant(user, bookings[id]) THEN "forbidden"
    ELSE IF bookings[id].status \notin {"pending", "confirmed"} THEN "invalid_state"
    ELSE "cancelled"

CancelBooking(user, id) ==
    LET result == cancelResult(user, id) IN
    /\ bookings' = IF result = "cancelled"
                   THEN [bookings EXCEPT ![id].status = "cancelled",
                                         ![id].cancelledBy = user.metaId]
                   ELSE bookings
    /\ Respond("cancel", result)
    /\ UnchangedBut({"bookings"})

----------------------------------------------------------------------------
(* sessions.get('/:id/access'): the access window *)

\* the access window with its first boundary moved: exactly one hour before
\* the start still counts as too early
checkAccessLateOpening(t, scheduledStart, scheduledEnd, status, role) ==
    LET oneHourBefore == scheduledStart - HOUR
        oneHourAfter == scheduledEnd + HOUR
        answer(a, m, s) == [accessStatus |-> a, canMessage |-> m, canStart |-> s]
    IN  IF status = "completed" \/ status = "no_show"
        THEN IF t <= oneHourAfter
             THEN answer("post_session", TRUE, FALSE)
             ELSE answer("expired", FALSE, FALSE)
        ELSE IF t <= oneHourBefore
        THEN answer("too_early", FALSE, FALSE)
        ELSE IF t < scheduledStart
        THEN answer("pre_session", TRUE, role = "tutor")
        ELSE IF t <= scheduledEnd
        THEN answer("during_session", TRUE, role = "tutor" /\ status = "scheduled")
        ELSE IF t <= oneHourAfter
        THEN answer("post_session", TRUE, FALSE)
        ELSE answer("expired", FALSE, FALSE)

\* the access window in which a session that has ended never expires
checkAccessEndedNeverExpires(t, scheduledStart, scheduledEnd, status, role) ==
    LET oneHourBefore == scheduledStart - HOUR
        oneHourAfter == scheduledEnd + HOUR
        answer(a, m, s) == [accessStatus |-> a, canMessage |-> m, canStart |-> s]
    IN  IF status = "completed" \/ status = "no_show"
        THEN answer("post_session", TRUE, FALSE)
        ELSE IF t < oneHourBefore
        THEN answer("too_early", FALSE, FALSE)
        ELSE IF t < scheduledStart
        THEN answer("pre_session", TRUE, role = "tutor")
        ELSE IF t <= scheduledEnd
        THEN answer("during_session", TRUE, role = "tutor" /\ status = "scheduled")
        ELSE IF t <= oneHourAfter
        THEN answer("post_session", TRUE, FALSE)
        ELSE answer("expired", FALSE, FALSE)

checkAccess(t, scheduledStart, scheduledEnd, status, role) ==
    LET oneHourBefore == scheduledStart - HOUR
        oneHourAfter == scheduledEnd + HOUR
        answer(a, m, s) == [accessStatus |-> a, canMessage |-> m, canStart |-> s]
    IN  IF status = "completed" \/ status = "no_show"
        THEN IF t <= oneHourAfter
             THEN answer("post_session", TRUE, FALSE)
             ELSE answer("expired", FALSE, FALSE)
        ELSE IF t < oneHourBefore
        THEN answer("too_early", FALSE, FALSE)
        ELSE IF t >= oneHourBefore /\ t < scheduledStart
        THEN answer("pre_session", TRUE, role = "tutor")
        ELSE IF t >= scheduledStart /\ t <= scheduledEnd
        THEN answer("during_session", TRUE, role = "tutor" /\ status = "scheduled")
        ELSE IF t > scheduledEnd /\ t <= oneHourAfter
        THEN answer("post_session", TRUE, FALSE)
        ELSE answer("expired", FALSE, FALSE)

bookingOf(sid) == bookings[sessions[sid].bookingId]

accessOf(user, sid) ==
    checkAccess(now, bookingOf(sid).scheduledStartTime, bookingOf(sid).scheduledEndTime,
                sessions[sid].status, user.role)

----------------------------------------------------------------------------
(* sessions.post('/:id/messages') *)

\* the messaging window closed one instant early: exactly one hour after
\* the end is already outside
canMessageEarlyClosing(t, scheduledStart, scheduledEnd, status) ==
    LET oneHourBefore == scheduledStart - HOUR
        oneHourAfter == scheduledEnd + HOUR
    IN  IF status = "completed" \/ status = "no_show"
        THEN t < oneHourAfter
        ELSE t >= oneHourBefore /\ t < oneHourAfter

canMessage(t, scheduledStart, scheduledEnd, status) ==
    LET oneHourBefore == scheduledStart - HOUR
        oneHourAfter == scheduledEnd + HOUR
    IN  IF status = "completed" \/ status = "no_show"
        THEN t <= oneHourAfter
        ELSE t >= oneHourBefore /\ t <= oneHourAfter

sendMessageResult(user, sid) ==
    IF sid \notin 1..Len(sessions) THEN "not_found"
    ELSE IF ~isParticipant(user, bookingOf(sid)) THEN "forbidden"
    ELSE IF ~canMessage(now, bookingOf(sid).scheduledStartTime,
                        bookingOf(sid).scheduledEndTime, sessions[sid].status)
    THEN IF now < bookingOf(sid).scheduledStartTime - HOUR
         THEN "too_early" ELSE "window_expired"
    ELSE "sent"

\* a message that expires one hour after it was sent
NewMessageFromSendInstant(user, sid) ==
    [sessionId |-> sid, senderId |-> user.metaId, sentAt |-> now,
     expiresAt |-> now + HOUR]

NewMessage(user, sid) ==
    [sessionId |-> sid, senderId |-> user.metaId, sentAt |-> now,
     expiresAt |-> bookingOf(sid).scheduledEndTime + HOUR]

SendMessage(user, sid) ==
    LET result == sendMessageResult(user, sid) IN
    /\ messages' = IF result = "sent"
                   THEN Append(messages, NewMessage(user, sid))
                   ELSE messages
    /\ Respond("send", result)
    /\ UnchangedBut({"messages"})

----------------------------------------------------------------------------
(* sessions.get('/:id/messages') *)

getMessagesResult(user, sid) ==
    IF sid \notin 1..Len(sessions) THEN "not_found"
    ELSE IF ~isParticipant(user, bookingOf(sid)) THEN "forbidden"
    ELSE "ok"

\* where: { sessionId, expiresAt: { gt: new Date() } }: the rows selected
unexpired(sid, t) ==
    {m \in 1..Len(messages) : messages[m].sessionId = sid /\ messages[m].expiresAt > t}

\* orderBy: { sentAt: "asc" }: the orders in which the store may return the
\* selected rows (rows with equal sentAt come in either order)
bySentAt(rows) ==
    {order \in [1..Cardinality(rows) -> rows] :
        /\ \A j, k \in DOMAIN order : j # k => order[j] # order[k]
        /\ \A j, k \in DOMAIN order :
              j < k => messages[order[j]].sentAt <= messages[order[k]].sentAt}

GetMessages(user, sid) ==
    LET result == getMessagesResult(user, sid) IN
    /\ IF result = "ok"
       THEN \E order \in bySentAt(unexpired(sid, now)) :
               view' = [k \in DOMAIN order |-> messages[order[k]]]
       ELSE view' = <<>>
    /\ Respond("messages", result)
    /\ UnchangedBut({"view"})

----------------------------------------------------------------------------
(* sessions.patch('/:id/complete') *)

completeResult(user, sid) ==
    IF sid \notin 1..Len(sessions) THEN "not_found"
    ELSE IF user.role # "tutor" \/ bookingOf(sid).tutorId # user.metaId THEN "forbidden"
    ELSE IF sessions[sid].status # "active" THEN "invalid_state"
    ELSE "completed"

\* db.$transaction([session.update, booking.update]): both writes or neither
completeTransaction(sid, t, fault) ==
    IF fault
    THEN [committed |-> FALSE, bookings |-> bookings, sessions |-> sessions]
    ELSE [committed |-> TRUE,
          sessions |-> [sessions EXCEPT ![sid].status = "completed",
                                        ![sid].actualEndTime = t],
          bookings |-> [bookings EXCEPT ![sessions[sid].bookingId].status = "completed"]]

\* db.sessionMessage.updateMany({ where: { sessionId }, data: { expiresAt } })
expireMessages(sid, t) ==
    [m \in DOMAIN messages |->
        IF messages[m].sessionId = sid
        THEN [messages[m] EXCEPT !.expiresAt = t + HOUR]
        ELSE messages[m]]

\* The transaction and the updateMany that follows it are two separate calls
\* of the store: outcome "tx_failed" is a fault of the first (nothing is
\* written), "update_failed" a fault of the second (the statuses stay written).
CompleteSession(user, sid) ==
    LET result == completeResult(user, sid) IN
    IF result # "completed"
    THEN /\ Respond("complete", result)
         /\ UnchangedBut({})
    ELSE \E outcome \in {"ok", "tx_failed", "update_failed"} :
         LET tx == completeTransaction(sid, now, outcome = "tx_failed") IN
         /\ bookings' = tx.bookings
         /\ sessions' = tx.sessions
         /\ messages' = IF outcome = "ok" THEN expireMessages(sid, now) ELSE messages
         /\ Respond("complete", IF outcome = "ok" THEN "completed" ELSE "error")
         /\ UnchangedBut({"bookings", "sessions", "messages"})

----------------------------------------------------------------------------
(* sessions.patch('/:id/start') *)

\* start without the check of the instant
startResultAnyTime(user, sid) ==
    IF sid \notin 1..Len(sessions) THEN "not_found"
    ELSE IF ~isParticipant(user, bookingOf(sid)) THEN "forbidden"
    ELSE IF sessions[sid].status = "completed" \/ sessions[sid].status = "no_show"
    THEN "already_ended"
    ELSE IF user.role = "tutor" /\ sessions[sid].status = "scheduled" THEN "started"
    ELSE "joined"

startResult(user, sid) ==
    IF sid \notin 1..Len(sessions) THEN "not_found"
    ELSE IF ~isParticipant(user, bookingOf(sid)) THEN "forbidden"
    ELSE IF now < bookingOf(sid).scheduledStartTime - HOUR THEN "too_early"
    ELSE IF sessions[sid].status = "completed" \/ sessions[sid].status = "no_show"
    THEN "already_ended"
    ELSE IF user.role = "tutor" /\ sessions[sid].status = "scheduled" THEN "started"
    ELSE "joined"

StartSession(user, sid) ==
    LET result == startResult(user, sid) IN
    /\ sessions' = IF result = "started"
                   THEN [sessions EXCEPT ![sid].status = "active",
                                         ![sid].actualStartTime = now]
                   ELSE sessions
    /\ Respond("start", result)
    /\ UnchangedBut({"sessions"})

----------------------------------------------------------------------------
(* tutors.post('/availability') *)

setAvailabilityResult(user, availableHours) ==
    IF user.role # "tutor" THEN "forbidden"
    ELSE IF ~(\A h \in availableHours : h >= 0 /\ h <= 23) THEN "invalid"
    ELSE "updated"

\* passes of the loop at which a fault of the store is tried: before the
\* first upsert, and between those of hours 9 and 10
FaultPasses == {0, 10}

\* The loop awaits one upsert per hour and nothing joins them: a fault of the
\* store at pass `done` leaves the first `done` hours written.
SetAvailability(user, availableHours) ==
    LET result == setAvailabilityResult(user, availableHours) IN
    IF result # "updated"
    THEN /\ Respond("availability", result)
         /\ UnchangedBut({})
    ELSE \E done \in FaultPasses \cup {HoursPerDay} :
         /\ timeSlots' = [timeSlots EXCEPT ![user.metaId] =
                             upsertLoop(timeSlots[user.metaId], availableHours, done)]
         /\ Respond("availability", IF done = HoursPerDay THEN "updated" ELSE "error")
         /\ UnchangedBut({"timeSlots"})

----------------------------------------------------------------------------
(* tutors.post('/unavailable-dates') *)

NewUnavailableDate(user, date) == [tutorId |-> user.metaId, unavailableDate |-> date]

\* a second row for the same tutor and date fails on the unique index
\* tutor_unavailable_dates_tutor_id_unavailable_date_key
\* and reaches the catch of the route, which answers every error that is not
\* a validation error with 500 'Internal server error'
addUnavailableDateResult(user, date) ==
    IF user.role # "tutor" THEN "forbidden"
    ELSE IF NewUnavailableDate(user, date) \in unavailableDates THEN "error"
    ELSE "added"

AddUnavailableDate(user, date) ==
    LET result == addUnavailableDateResult(user, date) IN
    /\ unavailableDates' = IF result = "added"
                           THEN unavailableDates \cup {NewUnavailableDate(user, date)}
                           ELSE unavailableDates
    /\ Respond("unavailable", result)
    /\ UnchangedBut({"unavailableDates"})

----------------------------------------------------------------------------
(* tutors.get('/:id/availability') *)

\* `${hour.toString().padStart(2, '0')}:00`: the two digits of the label
padStart(hour) == <<hour \div 10, hour % 10>>

GetAvailability(tutorId, date) ==
    /\ view' = IF tutorId \in Tutors
               THEN LET availableSlots == getTutorAvailableSlots(tutorId, date)
                    IN  [k \in DOMAIN availableSlots |-> padStart(availableSlots[k])]
               ELSE <<>>
    /\ Respond("slots", IF tutorId \in Tutors THEN "ok" ELSE "not_found")
    /\ UnchangedBut({"view"})

----------------------------------------------------------------------------
(* tutors.patch('/availability/slot') *)

\* updateAvailabilitySchema: hourStart is an integer of 0..23
setSlotResult(user, hourStart) ==
    IF user.role # "tutor" THEN "forbidden"
    ELSE IF hourStart < 0 \/ hourStart > 23 THEN "invalid"
    ELSE "updated"

\* db.tutorTimeSlot.updateMany where tutorId and hourStart match: the rows
\* that exist are written, and no row is created
updateMany(slots, hourStart, isAvailable) ==
    [rows |-> slots.rows,
     open |-> IF hourStart \notin slots.rows THEN slots.open
              ELSE IF isAvailable THEN slots.open \cup {hourStart}
              ELSE slots.open \ {hourStart}]

SetSlot(user, hourStart, isAvailable) ==
    LET result == setSlotResult(user, hourStart) IN
    /\ timeSlots' = IF result = "updated"
                    THEN [timeSlots EXCEPT ![user.metaId] =
                             updateMany(timeSlots[user.metaId], hourStart, isAvailable)]
                    ELSE timeSlots
    /\ Respond("slot", result)
    /\ UnchangedBut({"timeSlots"})

----------------------------------------------------------------------------
(* Creation of a tutor account *)

\* db.tutorTimeSlot.createMany of the 24 closed rows: one INSERT, which the
\* unique index tutor_time_slots_tutor_id_hour_start_key refuses as a whole
\* when one of the rows exists
createTutorTimeSlots(slots) ==
    IF slots.rows \cap (0..(HoursPerDay - 1)) # {}
    THEN [slots |-> slots, error |-> TRUE]
    ELSE [slots |-> [rows |-> 0..(HoursPerDay - 1), open |-> slots.open],
          error |-> FALSE]

\* createTutorSchema: availableHours is optional, integers of 0..23
createTutorResult(availableHours) ==
    IF ~(\A h \in availableHours : h >= 0 /\ h <= 23) THEN "invalid"
    ELSE "created"

\* tutors.post('/'): the rows are made only when hours are given, and the
\* hours handed to createTutorTimeSlots as a second argument are not read.
\* An absent availableHours and an empty one are both the empty set here.
CreateTutor(tutorId, availableHours) ==
    LET result == createTutorResult(availableHours)
        made == createTutorTimeSlots(timeSlots[tutorId])
    IN
    IF result # "created" \/ availableHours = {}
    THEN /\ Respond("tutor", result)
         /\ UnchangedBut({})
    ELSE /\ timeSlots' = [timeSlots EXCEPT ![tutorId] = made.slots]
         /\ Respond("tutor", IF made.error THEN "error" ELSE "created")
         /\ UnchangedBut({"timeSlots"})

\* admin.post('/tutors'): createTutorTimeSlots, then updateTutorAvailability
\* when hours are given
AdminCreateTutor(tutorId, availableHours) ==
    LET result == createTutorResult(availableHours)
        made == createTutorTimeSlots(timeSlots[tutorId])
    IN
    IF result # "created"
    THEN /\ Respond("tutor", result)
         /\ UnchangedBut({})
    ELSE IF made.error
    THEN /\ Respond("tutor", "error")
         /\ UnchangedBut({})
    ELSE \E done \in IF availableHours = {} THEN {HoursPerDay}
                     ELSE FaultPasses \cup {HoursPerDay} :
         /\ timeSlots' = [timeSlots EXCEPT ![tutorId] =
                             IF availableHours = {} THEN made.slots
                             ELSE upsertLoop(made.slots, availableHours, done)]
         /\ Respond("tutor", IF done = HoursPerDay THEN "created" ELSE "error")
         /\ UnchangedBut({"timeSlots"})

----------------------------------------------------------------------------
(* The clock *)

Tick ==
    /\ now < ClockEnd
    /\ now' = now + HOUR
    /\ UNCHANGED <<db, last, reqs, gate, view>>

----------------------------------------------------------------------------
(* Requests served one at a time *)

NoResponse == [op |-> "none", result |-> "none"]

NoGate == [t |-> 0, scheduledStart |-> 0, status |-> "none", role |-> "none",
           out |-> [accessStatus |-> "none", canMessage |-> FALSE, canStart |-> FALSE]]

\* createTutorTimeSlots: 24 rows per tutor; t1 has then opened OpenHours
InitTimeSlots ==
    [t \in Tutors |-> [rows |-> 0..(HoursPerDay - 1),
                       open |-> IF t = "t1" THEN OpenHours ELSE {}]]

Init ==
    /\ timeSlots = InitTimeSlots
    /\ unavailableDates = {}
    /\ bookings = <<>>
    /\ sessions = <<>>
    /\ messages = <<>>
    /\ now = ClockStart
    /\ last = NoResponse
    /\ reqs = <<>>
    /\ gate = NoGate
    /\ view = <<>>

\* Spec follows at most MaxTracked bookings through session and messages
Create ==
    \E user \in Users, tutorId \in Tutors, startTime \in StartTimes :
        /\ Len(bookings) < MaxTracked
              \/ createBookingResult(user, tutorId, startTime) # "created"
        /\ CreateBooking(user, tutorId, startTime)

Accept == \E user \in Users, id \in TrackedIds : AcceptBooking(user, id)

LedgerAccept == \E user \in Users, id \in BookingIds : AcceptBooking(user, id)

Reject == \E user \in Users, id \in TrackedIds : RejectBooking(user, id)

LedgerReject == \E user \in Users, id \in BookingIds : RejectBooking(user, id)

Cancel == \E user \in Users, id \in TrackedIds : CancelBooking(user, id)

LedgerCancel == \E user \in Users, id \in BookingIds : CancelBooking(user, id)

Send ==
    \E user \in Users, sid \in TrackedIds :
        /\ Len(messages) < MaxMessages \/ sendMessageResult(user, sid) # "sent"
        /\ SendMessage(user, sid)

Start == \E user \in Users, sid \in TrackedIds : StartSession(user, sid)

Complete == \E user \in Users, sid \in TrackedIds : CompleteSession(user, sid)

Next ==
    \/ Create
    \/ Accept
    \/ Reject
    \/ Cancel
    \/ Send
    \/ Start
    \/ Complete
    \/ Tick

Spec == Init /\ [][Next]_vars

----------------------------------------------------------------------------
(* The booking ledger alone, with up to MaxBookings bookings *)

LedgerCreate ==
    \E user \in Users, tutorId \in Tutors, startTime \in StartTimes :
        /\ Len(bookings) < MaxBookings
              \/ createBookingResult(user, tutorId, startTime) # "created"
        /\ CreateBooking(user, tutorId, startTime)

NextLedger ==
    \/ LedgerCreate
    \/ LedgerAccept
    \/ LedgerReject
    \/ LedgerCancel

SpecLedger == Init /\ [][NextLedger]_vars

----------------------------------------------------------------------------
(* Requests served concurrently: a handler runs from one await of the store *)
(* to the next, and other handlers run in between.  reqs holds every       *)
(* request with its position (pc) and, once answered, its response.        *)

Request(op, user, id, startTime, pc, result) ==
    [op |-> op, user |-> user, id |-> id, startTime |-> startTime,
     pc |-> pc, result |-> result]

Answer(r, result) ==
    reqs' = [reqs EXCEPT ![r].pc = "done", ![r].result = result]

Goto(r, pc) ==
    reqs' = [reqs EXCEPT ![r].pc = pc]

InFlight(r, op, pc) ==
    r \in 1..Len(reqs) /\ reqs[r].op = op /\ reqs[r].pc = pc

\* start instants of concurrent create requests: whole hours only
HourStarts == {At(9, 0), At(10, 0)}

\* bookings.post('/'), lines 12-35: role check and tutor lookup
CreateBegin(user, tutorId, startTime) ==
    /\ Len(reqs) < MaxRequests
    /\ reqs' = Append(reqs,
          IF user.role # "student"
          THEN Request("create", user, tutorId, startTime, "done", "forbidden")
          ELSE IF tutorId \notin Tutors
          THEN Request("create", user, tutorId, startTime, "done", "not_found")
          ELSE Request("create", user, tutorId, startTime, "check", "none"))
    /\ UNCHANGED <<db, now, last, gate, view>>

\* lines 41-48: await isTimeSlotAvailable(...)
CreateCheck(r) ==
    /\ InFlight(r, "create", "check")
    /\ IF isTimeSlotAvailable(reqs[r].id, reqs[r].startTime)
       THEN Goto(r, "insert")
       ELSE Answer(r, "slot_unavailable")
    /\ UNCHANGED <<db, now, last, gate, view>>

\* lines 51-62: await db.booking.create(...)
CreateInsert(r) ==
    /\ InFlight(r, "create", "insert")
    /\ bookings' = Append(bookings,
                          NewBooking(reqs[r].user, reqs[r].id, reqs[r].startTime))
    /\ Answer(r, "created")
    /\ UNCHANGED <<timeSlots, unavailableDates, sessions, messages, now, last, gate, view>>

ConcurrentCreateBegin ==
    \E user \in Users, tutorId \in Tutors, startTime \in HourStarts :
        CreateBegin(user, tutorId, startTime)

ConcurrentCreateCheck == \E r \in 1..MaxRequests : CreateCheck(r)

ConcurrentCreateInsert == \E r \in 1..MaxRequests : CreateInsert(r)

NextCreate ==
    \/ ConcurrentCreateBegin
    \/ ConcurrentCreateCheck
    \/ ConcurrentCreateInsert

SpecCreate == Init /\ [][NextCreate]_vars

----------------------------------------------------------------------------
(* accept, reject and cancel served concurrently *)

\* bookings.patch('/:id/accept'), lines 139-153: findUnique and the checks
AcceptBegin(user, id) ==
    /\ Len(reqs) < MaxRequests
    /\ LET result == acceptResult(user, id) IN
       reqs' = Append(reqs,
          IF result = "accepted"
          THEN Request("accept", user, id, NULL, "write", "none")
          ELSE Request("accept", user, id, NULL, "done", result))
    /\ UNCHANGED <<db, now, last, gate, view>>

\* lines 156-168: await db.$transaction([...])
AcceptCommit(r) ==
    /\ InFlight(r, "accept", "write")
    /\ \E fault \in BOOLEAN :
         LET tx == acceptTransaction(reqs[r].id, fault) IN
         /\ bookings' = tx.bookings
         /\ sessions' = tx.sessions
         /\ Answer(r, IF tx.committed THEN "accepted" ELSE "error")
    /\ UNCHANGED <<timeSlots, unavailableDates, messages, now, last, gate, view>>

\* bookings.patch('/:id/reject'), lines 190-204
RejectBegin(user, id) ==
    /\ Len(reqs) < MaxRequests
    /\ LET result == rejectResult(user, id) IN
       reqs' = Append(reqs,
          IF result = "rejected"
          THEN Request("reject", user, id, NULL, "write", "none")
          ELSE Request("reject", user, id, NULL, "done", result))
    /\ UNCHANGED <<db, now, last, gate, view>>

\* lines 206-213: await db.booking.update(...)
RejectWrite(r) ==
    /\ InFlight(r, "reject", "write")
    /\ bookings' = [bookings EXCEPT ![reqs[r].id].status = "rejected",
                                    ![reqs[r].id].cancelledBy = reqs[r].user.metaId]
    /\ Answer(r, "rejected")
    /\ UNCHANGED <<timeSlots, unavailableDates, sessions, messages, now, last, gate, view>>

\* bookings.patch('/:id/cancel'), lines 234-252
CancelBegin(user, id) ==
    /\ Len(reqs) < MaxRequests
    /\ LET result == cancelResult(user, id) IN
       reqs' = Append(reqs,
          IF result = "cancelled"
          THEN Request("cancel", user, id, NULL, "write", "none")
          ELSE Request("cancel", user, id, NULL, "done", result))
    /\ UNCHANGED <<db, now, last, gate, view>>

\* lines 254-261: await db.booking.update(...)
CancelWrite(r) ==
    /\ InFlight(r, "cancel", "write")
    /\ bookings' = [bookings EXCEPT ![reqs[r].id].status = "cancelled",
                                    ![reqs[r].id].cancelledBy = reqs[r].user.metaId]
    /\ Answer(r, "cancelled")
    /\ UNCHANGED <<timeSlots, unavailableDates, sessions, messages, now, last, gate, view>>

\* the bookings the concurrent requests work on are created one at a time
TrackedCreate ==
    \E user \in Users, tutorId \in Tutors, startTime \in StartTimes :
        /\ Len(bookings) < MaxTracked
              \/ createBookingResult(user, tutorId, startTime) # "created"
        /\ CreateBooking(user, tutorId, startTime)

ConcurrentAcceptBegin == \E user \in Users, id \in TrackedIds : AcceptBegin(user, id)

ConcurrentAcceptCommit == \E r \in 1..MaxRequests : AcceptCommit(r)

ConcurrentRejectBegin == \E user \in Users, id \in TrackedIds : RejectBegin(user, id)

ConcurrentRejectWrite == \E r \in 1..MaxRequests : RejectWrite(r)

ConcurrentCancelBegin == \E user \in Users, id \in TrackedIds : CancelBegin(user, id)

ConcurrentCancelWrite == \E r \in 1..MaxRequests : CancelWrite(r)

NextAccept ==
    \/ TrackedCreate
    \/ ConcurrentAcceptBegin
    \/ ConcurrentAcceptCommit
    \/ ConcurrentRejectBegin
    \/ ConcurrentRejectWrite
    \/ ConcurrentCancelBegin
    \/ ConcurrentCancelWrite

SpecAccept == Init /\ [][NextAccept]_vars

----------------------------------------------------------------------------
(* complete served concurrently with cancel *)

\* sessions.patch('/:id/complete'), lines 825-849: findUnique and the checks
CompleteBegin(user, sid) ==
    /\ Len(reqs) < MaxRequests
    /\ LET result == completeResult(user, sid) IN
       reqs' = Append(reqs,
          IF result = "completed"
          THEN Request("complete", user, sid, NULL, "write", "none")
          ELSE Request("complete", user, sid, NULL, "done", result))
    /\ UNCHANGED <<db, now, last, gate, view>>

\* lines 851-867: const now = new Date(); await db.$transaction([...]).
\* The request keeps its now (in the field startTime) for the updateMany.
CompleteCommit(r) ==
    /\ InFlight(r, "complete", "write")
    /\ \E fault \in BOOLEAN :
         LET tx == completeTransaction(reqs[r].id, now, fault) IN
         /\ bookings' = tx.bookings
         /\ sessions' = tx.sessions
         /\ IF tx.committed
            THEN reqs' = [reqs EXCEPT ![r].pc = "expire", ![r].startTime = now]
            ELSE Answer(r, "error")
    /\ UNCHANGED <<timeSlots, unavailableDates, messages, now, last, gate, view>>

\* lines 869-876: await db.sessionMessage.updateMany(...) and the response
CompleteExpire(r) ==
    /\ InFlight(r, "complete", "expire")
    /\ \E fault \in BOOLEAN :
         /\ messages' = IF fault THEN messages
                        ELSE expireMessages(reqs[r].id, reqs[r].startTime)
         /\ Answer(r, IF fault THEN "error" ELSE "completed")
    /\ UNCHANGED <<timeSlots, unavailableDates, bookings, sessions, now, last, gate, view>>

ConcurrentCompleteBegin ==
    \E user \in Users, sid \in TrackedIds : CompleteBegin(user, sid)

ConcurrentCompleteCommit == \E r \in 1..MaxRequests : CompleteCommit(r)

ConcurrentCompleteExpire == \E r \in 1..MaxRequests : CompleteExpire(r)

NextComplete ==
    \/ TrackedCreate
    \/ Accept
    \/ Start
    \/ Tick
    \/ ConcurrentCancelBegin
    \/ ConcurrentCancelWrite
    \/ ConcurrentCompleteBegin
    \/ ConcurrentCompleteCommit
    \/ ConcurrentCompleteExpire

SpecComplete == Init /\ [][NextComplete]_vars

----------------------------------------------------------------------------
(* The message thread of one session: sends, reads, start and complete *)

ThreadSend ==
    \E user \in Users, sid \in TrackedIds :
        /\ Len(messages) < MaxThread \/ sendMessageResult(user, sid) # "sent"
        /\ SendMessage(user, sid)

ThreadRead == \E user \in Users, sid \in TrackedIds : GetMessages(user, sid)

NextMessages ==
    \/ TrackedCreate
    \/ Accept
    \/ ThreadSend
    \/ ThreadRead
    \/ Start
    \/ Complete
    \/ Tick

SpecMessages == Init /\ [][NextMessages]_vars

----------------------------------------------------------------------------
(* The availability engine: the template and the blackout dates of tutor *)
(* t1 and the bookings made with t1, the handlers run one at a time      *)

\* the dates asked about: day 0 and the day after
Dates == {0, DAY}

SlotStarts == {At(9, 0), At(9, HalfHour), DAY + At(9, 0)}

\* bodies of POST /availability: the last one fails validation
AvailabilityInputs == {{}, {9}, {9, 10}, {9, HoursPerDay}}

\* the callers in this specification: tutor t1 and student s1
SlotsCallers == {u \in Users : u.metaId \in {"t1", "s1"}}

SlotsSetAvailability ==
    \E user \in SlotsCallers, availableHours \in AvailabilityInputs :
        SetAvailability(user, availableHours)

SlotsAddUnavailableDate ==
    \E user \in SlotsCallers, date \in Dates : AddUnavailableDate(user, date)

SlotsCreate ==
    \E user \in SlotsCallers, startTime \in SlotStarts :
        /\ Len(bookings) < MaxBookings
              \/ createBookingResult(user, "t1", startTime) # "created"
        /\ CreateBooking(user, "t1", startTime)

SlotsAccept == \E user \in SlotsCallers, id \in BookingIds : AcceptBooking(user, id)

SlotsCancel == \E user \in SlotsCallers, id \in BookingIds : CancelBooking(user, id)

NextSlots ==
    \/ SlotsSetAvailability
    \/ SlotsAddUnavailableDate
    \/ SlotsCreate
    \/ SlotsAccept
    \/ SlotsCancel

SpecSlots == Init /\ [][NextSlots]_vars

----------------------------------------------------------------------------
(* The template alone: both tutors replace their hours, one request at a *)
(* time, and the slots are read                                          *)

\* t2 either has the 24 closed rows of createTutorTimeSlots or, registered
\* without availableHours (tutors.ts:61-63), no row at all
InitTemplate ==
    /\ timeSlots \in {[InitTimeSlots EXCEPT !["t2"].rows = rows] :
                         rows \in {0..(HoursPerDay - 1), {}}}
    /\ unavailableDates = {}
    /\ bookings = <<>>
    /\ sessions = <<>>
    /\ messages = <<>>
    /\ now = ClockStart
    /\ last = NoResponse
    /\ reqs = <<>>
    /\ gate = NoGate
    /\ view = <<>>

TemplateSetAvailability ==
    \E user \in Users, availableHours \in AvailabilityInputs :
        SetAvailability(user, availableHours)

TemplateRead == \E tutorId \in Tutors : GetAvailability(tutorId, 0)

\* hours asked of the single-slot route: two of the day, and one past it
SlotHours == {9, 10, HoursPerDay}

TemplateSetSlot ==
    \E user \in Users, hourStart \in SlotHours, isAvailable \in BOOLEAN :
        SetSlot(user, hourStart, isAvailable)

NextTemplate ==
    \/ TemplateSetAvailability
    \/ TemplateSetSlot
    \/ TemplateRead

SpecTemplate == InitTemplate /\ [][NextTemplate]_vars

----------------------------------------------------------------------------
(* tutors.post('/availability') served concurrently with the reads: the  *)
(* loop of updateTutorAvailability runs from one awaited upsert to the   *)
(* next                                                                  *)

\* `hour` is the loop variable; `before` keeps the rows the request found,
\* which the code does not store and only the properties read
ReplaceRequest(user, availableHours, pc, result) ==
    [op |-> "availability", user |-> user, availableHours |-> availableHours,
     hour |-> 0, before |-> IF user.metaId \in Tutors THEN timeSlots[user.metaId]
                            ELSE [rows |-> {}, open |-> {}],
     pc |-> pc, result |-> result]

\* tutors.ts, lines 293-306: role check and validation
ReplaceBegin(user, availableHours) ==
    /\ Len(reqs) < MaxRequests
    /\ LET result == setAvailabilityResult(user, availableHours) IN
       reqs' = Append(reqs,
          IF result = "updated"
          THEN ReplaceRequest(user, availableHours, "upsert", "none")
          ELSE ReplaceRequest(user, availableHours, "done", result))
    /\ UNCHANGED <<db, now, last, gate, view>>

\* part_002, lines 113-132: one pass of the loop, await db.tutorTimeSlot.upsert;
\* a fault of the store is tried at the passes of FaultPasses
ReplaceUpsert(r) ==
    /\ InFlight(r, "availability", "upsert")
    /\ LET tutorId == reqs[r].user.metaId
           hour == reqs[r].hour
       IN  \/ /\ timeSlots' = [timeSlots EXCEPT ![tutorId] =
                     upsert(timeSlots[tutorId], hour, hour \in reqs[r].availableHours)]
              /\ reqs' = [reqs EXCEPT
                     ![r].hour = hour + 1,
                     ![r].pc = IF hour + 1 < HoursPerDay THEN "upsert" ELSE "done",
                     ![r].result = IF hour + 1 < HoursPerDay THEN "none" ELSE "updated"]
           \/ /\ hour \in FaultPasses
              /\ Answer(r, "error")
              /\ UNCHANGED timeSlots
    /\ UNCHANGED <<unavailableDates, bookings, sessions, messages, now, last, gate, view>>

ConcurrentReplaceBegin ==
    \E user \in SlotsCallers, availableHours \in AvailabilityInputs :
        ReplaceBegin(user, availableHours)

ConcurrentReplaceUpsert == \E r \in 1..MaxRequests : ReplaceUpsert(r)

\* the read of the slots does its findMany of the template between two passes
ConcurrentRead == GetAvailability("t1", 0)

NextReplace ==
    \/ ConcurrentReplaceBegin
    \/ ConcurrentReplaceUpsert
    \/ ConcurrentRead

SpecReplace == Init /\ [][NextReplace]_vars

----------------------------------------------------------------------------
(* Accounts of tutors are created, by either route *)

\* hours given at creation: none, some of TemplateHours, or one past the day
CreateInputs == (SUBSET {2, 9, 10, 20}) \cup {{9, HoursPerDay}}

\* no tutor has an account, and so no row
InitAccounts ==
    /\ timeSlots = [t \in Tutors |-> [rows |-> {}, open |-> {}]]
    /\ unavailableDates = {}
    /\ bookings = <<>>
    /\ sessions = <<>>
    /\ messages = <<>>
    /\ now = ClockStart
    /\ last = NoResponse
    /\ reqs = <<>>
    /\ gate = NoGate
    /\ view = <<>>

\* generateTutorId gives an id that has no row yet
AccountsCreateTutor ==
    \E tutorId \in Tutors, availableHours \in CreateInputs :
        /\ timeSlots[tutorId].rows = {}
        /\ CreateTutor(tutorId, availableHours)

AccountsAdminCreateTutor ==
    \E tutorId \in Tutors, availableHours \in CreateInputs :
        /\ timeSlots[tutorId].rows = {}
        /\ AdminCreateTutor(tutorId, availableHours)

NextAccounts ==
    \/ AccountsCreateTutor
    \/ AccountsAdminCreateTutor

SpecAccounts == InitAccounts /\ [][NextAccounts]_vars

----------------------------------------------------------------------------
(* createTutorTimeSlots alone: it is called on every template a tutor   *)
(* can have                                                             *)

\* the rows of one tutor: none, or the 24 with some of TemplateHours open
DrawnSlots ==
    {[rows |-> {}, open |-> {}]}
        \cup {[rows |-> 0..(HoursPerDay - 1), open |-> open] :
                 open \in SUBSET {2, 9, 10, 20}}

InitInitialize ==
    /\ timeSlots \in [Tutors -> DrawnSlots]
    /\ unavailableDates = {}
    /\ bookings = <<>>
    /\ sessions = <<>>
    /\ messages = <<>>
    /\ now = ClockStart
    /\ last = NoResponse
    /\ reqs = <<>>
    /\ gate = NoGate
    /\ view = <<>>

\* one call of createTutorTimeSlots(tutorId); the rejected INSERT is thrown
\* to the caller
Initialize(tutorId) ==
    LET made == createTutorTimeSlots(timeSlots[tutorId]) IN
    /\ timeSlots' = [timeSlots EXCEPT ![tutorId] = made.slots]
    /\ Respond("initialize", IF made.error THEN "error" ELSE "ok")
    /\ UnchangedBut({"timeSlots"})

NextInitialize == \E tutorId \in Tutors : Initialize(tutorId)

SpecInitialize == InitInitialize /\ [][NextInitialize]_vars

----------------------------------------------------------------------------
(* The resolver alone: the tables it reads are drawn in the initial state *)
(* and the one action applies it.                                         *)

\* hours whose subsets are the templates of t1 drawn
TemplateHours == {2, 9, 10, 20}

ResolveStarts == SlotStarts \cup {At(10, 0)}

\* a booking of s1 with t1 as create, accept, reject and cancel leave it
DrawnBooking(startTime, status) ==
    [NewBooking([role |-> "student", metaId |-> "s1"], "t1", startTime)
        EXCEPT !.status = status,
               !.cancelledBy = CASE status = "rejected" -> "t1"
                                 [] status = "cancelled" -> "s1"
                                 [] OTHER -> "none"]

DrawnBookings ==
    {DrawnBooking(startTime, status) :
        startTime \in ResolveStarts,
        status \in {"pending", "confirmed", "rejected", "cancelled"}}

\* the sessions accept has created: one for each confirmed booking
RECURSIVE SessionsFor(_, _)
SessionsFor(drawn, n) ==
    IF n = 0 THEN <<>>
    ELSE IF drawn[n].status = "confirmed"
         THEN Append(SessionsFor(drawn, n - 1), NewSession(n))
         ELSE SessionsFor(drawn, n - 1)

InitResolve ==
    /\ \E open \in SUBSET TemplateHours :
          timeSlots = [InitTimeSlots EXCEPT !["t1"].open = open]
    /\ unavailableDates \in
          SUBSET {NewUnavailableDate([role |-> "tutor", metaId |-> "t1"], date) :
                     date \in Dates}
    /\ \E n \in 0..MaxBookings : bookings \in [1..n -> DrawnBookings]
    /\ sessions = SessionsFor(bookings, Len(bookings))
    /\ messages = <<>>
    /\ now = ClockStart
    /\ last = NoResponse
    /\ reqs = <<>>
    /\ gate = NoGate
    /\ view = <<>>

ResolveRead == \E tutorId \in Tutors, date \in Dates : GetAvailability(tutorId, date)

NextResolve == ResolveRead

SpecResolve == InitResolve /\ [][NextResolve]_vars

----------------------------------------------------------------------------
(* The access computation alone: the inputs are drawn in the initial state *)
(* and the one action applies checkAccess to them.                         *)

SessionStatuses == {"scheduled", "active", "completed", "no_show"}

Roles == {"student", "tutor"}

GateStarts == {At(14, 0), At(14, HalfHour)}

GateInstants(scheduledStart) ==
    (scheduledStart - HOUR - GateMargin)..(scheduledStart + HOUR + HOUR + GateMargin)

InitGate ==
    /\ timeSlots = InitTimeSlots
    /\ unavailableDates = {}
    /\ bookings = <<>>
    /\ sessions = <<>>
    /\ messages = <<>>
    /\ now = ClockStart
    /\ last = NoResponse
    /\ reqs = <<>>
    /\ view = <<>>
    /\ \E scheduledStart \in GateStarts, status \in SessionStatuses, role \in Roles :
         \E t \in GateInstants(scheduledStart) :
            gate = [NoGate EXCEPT !.t = t, !.scheduledStart = scheduledStart,
                                  !.status = status, !.role = role]

GetAccess ==
    /\ gate.out = NoGate.out
    /\ gate' = [gate EXCEPT !.out = checkAccess(gate.t, gate.scheduledStart,
                                gate.scheduledStart + HOUR, gate.status, gate.role)]
    /\ UNCHANGED <<db, now, last, reqs, view>>

NextGate == GetAccess

SpecGate == InitGate /\ [][NextGate]_vars

----------------------------------------------------------------------------
(* Claims *)

Active(i) == bookings[i].status \in {"pending", "confirmed"}

\* bookings of tutor T that are pending or confirmed and start in the hour of
\* instant s on the date of s
ActiveInSlot(T, s) ==
    {i \in 1..Len(bookings) :
        /\ Active(i)
        /\ bookings[i].tutorId = T
        /\ normalizedDate(bookings[i].scheduledStartTime) = normalizedDate(s)
        /\ getHours(bookings[i].scheduledStartTime) = getHours(s)}

CreatesFor(T, s) ==
    {r \in 1..Len(reqs) :
        /\ reqs[r].op = "create"
        /\ reqs[r].user.role = "student"
        /\ reqs[r].id = T
        /\ reqs[r].startTime = s}

TemplateOpen(T, s) ==
    getHours(s) \in timeSlots[T].rows \cap timeSlots[T].open

\* C1: when two or more create requests for the same tutor, date and hour,
\* whose slot was open, have run concurrently and all are answered, exactly
\* one pending or confirmed booking exists for the slot, exactly one request
\* was answered "created" and every other one "slot_unavailable".
C1_ConcurrentCreatesYieldOneBooking ==
    \A T \in Tutors, s \in HourStarts :
        LET R == CreatesFor(T, s) IN
        (/\ Cardinality(R) >= 2
         /\ \A r \in R : reqs[r].pc = "done"
         /\ TemplateOpen(T, s))
        => /\ Cardinality(ActiveInSlot(T, s)) = 1
           /\ Cardinality({r \in R : reqs[r].result = "created"}) = 1
           /\ \A r \in R : reqs[r].result \in {"created", "slot_unavailable"}

\* C2: with the handlers run one at a time, no two pending or confirmed
\* bookings of one tutor start in the same hour of the same date, whether
\* or not their start instants lie on the hour.
C2_OneActiveBookingPerSlot ==
    \A i \in 1..Len(bookings) :
        Cardinality(ActiveInSlot(bookings[i].tutorId, bookings[i].scheduledStartTime)) <= 1

Terminal == {"rejected", "cancelled", "completed"}

Transitions ==
    {<<"pending", "confirmed">>, <<"pending", "rejected">>, <<"pending", "cancelled">>,
     <<"confirmed", "cancelled">>, <<"confirmed", "completed">>}

\* C3: a booking whose status is rejected, cancelled or completed keeps it
\* in every later step, and every change of a booking's status is one of
\* pending -> confirmed, pending -> rejected, pending -> cancelled,
\* confirmed -> cancelled, confirmed -> completed.
C3_TerminalStatusNeverChanges ==
    [][\A i \in 1..Len(bookings) :
          /\ bookings[i].status \in Terminal => bookings'[i].status = bookings[i].status
          /\ bookings'[i].status # bookings[i].status
                => <<bookings[i].status, bookings'[i].status>> \in Transitions]_vars

OwnsBooking(user, id) == user.role = "tutor" /\ bookings[id].tutorId = user.metaId

\* C4: accept or reject of a booking that is not pending, cancel of a
\* booking that is neither pending nor confirmed and complete of a session
\* that is not active leave bookings, sessions and messages unchanged, and
\* are answered with the invalid-state error whenever the caller passes the
\* handler's ownership check (any other caller is refused before the state
\* is looked at).
C4_WrongStateIsRefused ==
    [][\A user \in Users, id \in BookingIds :
          /\ (/\ last'.op = "accept"
              /\ id \in 1..Len(bookings)
              /\ bookings[id].status # "pending"
              /\ AcceptBooking(user, id))
                => /\ UNCHANGED db
                   /\ last'.result # "accepted"
                   /\ OwnsBooking(user, id) => last'.result = "invalid_state"
          /\ (/\ last'.op = "reject"
              /\ id \in 1..Len(bookings)
              /\ bookings[id].status # "pending"
              /\ RejectBooking(user, id))
                => /\ UNCHANGED db
                   /\ last'.result # "rejected"
                   /\ OwnsBooking(user, id) => last'.result = "invalid_state"
          /\ (/\ last'.op = "cancel"
              /\ id \in 1..Len(bookings)
              /\ bookings[id].status \notin {"pending", "confirmed"}
              /\ CancelBooking(user, id))
                => /\ UNCHANGED db
                   /\ last'.result # "cancelled"
                   /\ isParticipant(user, bookings[id]) => last'.result = "invalid_state"
          /\ (/\ last'.op = "complete"
              /\ id \in 1..Len(sessions)
              /\ sessions[id].status # "active"
              /\ CompleteSession(user, id))
                => /\ UNCHANGED db
                   /\ last'.result # "completed"
                   /\ OwnsBooking(user, sessions[id].bookingId)
                        => last'.result = "invalid_state"]_vars

\* a tutor's accept of their own confirmed booking, whose session has a
\* message, has been refused
C4_Witness ==
    /\ last = [op |-> "accept", result |-> "invalid_state"]
    /\ Len(bookings) > 0 /\ bookings[1].status = "confirmed"
    /\ Len(messages) > 0

SessionsOf(b) == {s \in 1..Len(sessions) : sessions[s].bookingId = b}

\* C5: every confirmed booking has exactly one session, whatever the
\* interleaving of concurrent accept, reject and cancel requests and
\* whichever transactions fail.
C5_ConfirmedHasOneSession ==
    \A b \in 1..Len(bookings) :
        bookings[b].status = "confirmed" => Cardinality(SessionsOf(b)) = 1

\* two accepts of one booking both passed the pending check; one committed
\* and the other was rolled back
C5_Witness ==
    \E r1, r2 \in 1..Len(reqs) :
        /\ r1 # r2
        /\ reqs[r1].op = "accept" /\ reqs[r2].op = "accept"
        /\ reqs[r1].id = reqs[r2].id
        /\ reqs[r1].result = "accepted" /\ reqs[r2].result = "error"
        /\ bookings[reqs[r1].id].status = "confirmed"

CompletedTogether ==
    /\ \A s \in 1..Len(sessions) :
          sessions[s].status = "completed" <=> bookingOf(s).status = "completed"
    /\ \A b \in 1..Len(bookings) :
          bookings[b].status = "completed" => SessionsOf(b) # {}

\* C6: in every state reachable with complete and cancel served
\* concurrently, a session is completed exactly when its booking is
\* completed, and every complete answered with success was called by the
\* tutor of the session's booking.
C6_CompletedTogether ==
    /\ CompletedTogether
    /\ \A r \in 1..Len(reqs) :
          (reqs[r].op = "complete" /\ reqs[r].result = "completed")
            => OwnsBooking(reqs[r].user, sessions[reqs[r].id].bookingId)

\* C7: in the step that makes a session completed, every message the
\* session had gets expiresAt = completion instant + 1 hour.
C7_CompletionExpiresMessages ==
    [][\A sid \in 1..Len(sessions) :
          (sessions[sid].status # "completed" /\ sessions'[sid].status = "completed")
            => \A m \in 1..Len(messages) :
                  messages[m].sessionId = sid
                    => messages'[m].expiresAt = sessions'[sid].actualEndTime + HOUR]_vars

\* the decision table of the access gate as the specification states it:
\* the access state by the interval the instant lies in, the flags by the
\* access state
AccessTable(t, scheduledStart, scheduledEnd, status, role) ==
    LET ended == status \in {"completed", "no_show"}
        state ==
            IF ended
            THEN (IF t <= scheduledEnd + HOUR THEN "post_session" ELSE "expired")
            ELSE CASE t < scheduledStart - HOUR -> "too_early"
                   [] scheduledStart - HOUR <= t /\ t < scheduledStart -> "pre_session"
                   [] scheduledStart <= t /\ t <= scheduledEnd -> "during_session"
                   [] scheduledEnd < t /\ t <= scheduledEnd + HOUR -> "post_session"
                   [] OTHER -> "expired"
    IN  [accessStatus |-> state,
         canMessage |-> state \in {"pre_session", "during_session", "post_session"},
         canStart |-> /\ ~ended
                      /\ role = "tutor"
                      /\ \/ state = "pre_session"
                         \/ state = "during_session" /\ status = "scheduled"]

\* C8: for every instant, schedule, session status and role the computed
\* access equals the decision table, with the boundaries as written, and
\* for a session scheduled 14:00-15:00 that has not ended it is too_early at
\* 12:59, pre_session with canMessage at 13:00, during_session at 14:30,
\* post_session with canMessage at 15:30, expired without canMessage at 16:01.
C8_AccessMatchesTable ==
    gate.out # NoGate.out =>
        LET start == gate.scheduledStart
            end == gate.scheduledStart + HOUR
            open == gate.status \in {"scheduled", "active"}
            is(a) == gate.out.accessStatus = a
        IN  /\ gate.out = AccessTable(gate.t, start, end, gate.status, gate.role)
            /\ open /\ gate.t = start - HOUR => is("pre_session")
            /\ open /\ gate.t \in {start, end} => is("during_session")
            /\ gate.t = end + HOUR => is("post_session")
            /\ open /\ start = At(14, 0) =>
                /\ gate.t = At(12, 59) => is("too_early")
                /\ gate.t = At(13, 0) => is("pre_session") /\ gate.out.canMessage
                /\ gate.t = At(14, 30) => is("during_session")
                /\ gate.t = At(15, 30) => is("post_session") /\ gate.out.canMessage
                /\ gate.t = At(16, 1) => is("expired") /\ ~gate.out.canMessage

C8_Witness ==
    /\ gate.scheduledStart = At(14, 0)
    /\ gate.t = At(16, 1)
    /\ gate.status = "active"
    /\ gate.out.accessStatus = "expired"

\* C9: a participant's sendMessage is answered "sent", and stores the
\* message, exactly when checkAccess at the same instant gives canMessage;
\* otherwise it is refused and messages is unchanged.
C9_SendIffCanMessage ==
    [][\A user \in Users, sid \in BookingIds :
          (sid \in 1..Len(sessions) /\ isParticipant(user, bookingOf(sid)))
            => /\ sendMessageResult(user, sid) = "sent" <=> accessOf(user, sid).canMessage
               /\ (last'.op = "send" /\ SendMessage(user, sid))
                    => IF accessOf(user, sid).canMessage
                       THEN /\ last'.result = "sent"
                            /\ messages' = Append(messages, NewMessage(user, sid))
                       ELSE /\ last'.result \in {"too_early", "window_expired"}
                            /\ messages' = messages]_vars

\* a message was accepted at exactly scheduledEnd + 1 hour, and a later
\* send was refused
C9_Witness ==
    /\ last = [op |-> "send", result |-> "window_expired"]
    /\ \E m \in 1..Len(messages) : messages[m].sentAt = messages[m].expiresAt

StartAllowed(user, sid) ==
    /\ sid \in 1..Len(sessions)
    /\ OwnsBooking(user, sessions[sid].bookingId)
    /\ sessions[sid].status = "scheduled"
    /\ now >= bookingOf(sid).scheduledStartTime - HOUR

Started(sid) ==
    sessions' = [sessions EXCEPT ![sid].status = "active", ![sid].actualStartTime = now]

C11_ExpiresOneHourAfterEnd ==
    [][Len(messages') = Len(messages) + 1 =>
          LET m == messages'[Len(messages')]
              sid == m.sessionId
          IN  /\ m.sentAt = now
              /\ m.expiresAt = bookingOf(sid).scheduledEndTime + HOUR
              /\ sessions[sid].status # "completed" =>
                    \A k \in 1..Len(messages) :
                        messages[k].sessionId = sid
                            => messages[k].expiresAt = m.expiresAt]_vars

\* two messages of one session sent at different instants
C11_Witness ==
    \E j, k \in 1..Len(messages) :
        /\ messages[j].sessionId = messages[k].sessionId
        /\ messages[j].sentAt < messages[k].sentAt
        /\ messages[j].expiresAt = messages[k].expiresAt

\* C12: a participant's read of a session's messages at instant now returns
\* every message of the session except those with expiresAt < now (one
\* whose expiresAt equals now is returned), ordered by sentAt ascending.
C12_ReadReturnsUnexpired ==
    [][\A user \in Users, sid \in BookingIds :
          (/\ last'.op = "messages"
           /\ getMessagesResult(user, sid) = "ok"
           /\ GetMessages(user, sid))
            => LET due == {m \in 1..Len(messages) :
                              /\ messages[m].sessionId = sid
                              /\ ~(messages[m].expiresAt < now)}
               IN  /\ Len(view') = Cardinality(due)
                   /\ \A m \in due : \E k \in 1..Len(view') : view'[k] = messages[m]
                   /\ \A j, k \in 1..Len(view') :
                         j < k => view'[j].sentAt <= view'[k].sentAt]_vars

\* C13: a complete answered with success at instant c sets the expiresAt of
\* every message of the session to c + 1 hour, and that is never later than
\* the expiresAt the message had before.
C13_CompletionPullsExpiryForward ==
    [][\A user \in Users, sid \in BookingIds :
          (/\ last'.op = "complete"
           /\ last'.result = "completed"
           /\ CompleteSession(user, sid))
            => \A m \in 1..Len(messages) :
                  messages[m].sessionId = sid
                    => /\ messages'[m].expiresAt = now + HOUR
                       /\ messages'[m].expiresAt <= messages[m].expiresAt]_vars

Blackout(T, D) ==
    \E ud \in unavailableDates :
        ud.tutorId = T /\ normalizedDate(ud.unavailableDate) = normalizedDate(D)

\* start hours of the pending or confirmed bookings of T on the date of D
HeldHours(T, D) ==
    {getHours(bookings[i].scheduledStartTime) :
        i \in {j \in 1..Len(bookings) :
                  /\ Active(j)
                  /\ bookings[j].tutorId = T
                  /\ normalizedDate(bookings[j].scheduledStartTime) = normalizedDate(D)}}

\* the hour a label "HH:00" of the response stands for
hourOf(label) == label[1] * 10 + label[2]

\* C14: the slots returned for tutor T and date D are none when D is a
\* blackout date of T, whatever the template and the bookings; otherwise
\* they are exactly the hours open in T's template that are not the start
\* hour of a pending or confirmed booking of T on D, each once.
C14_OpenSlotsAreTemplateMinusBooked ==
    [][\A T \in Tutors, D \in Dates :
          (last'.op = "slots" /\ GetAvailability(T, D))
            => IF Blackout(T, D)
               THEN view' = <<>>
               ELSE LET expected == {h \in 0..(HoursPerDay - 1) :
                                        /\ h \in timeSlots[T].rows
                                        /\ h \in timeSlots[T].open
                                        /\ h \notin HeldHours(T, D)}
                    IN  /\ {hourOf(view'[k]) : k \in 1..Len(view')} = expected
                        /\ Len(view') = Cardinality(expected)]_vars

\* on a date without blackout a read has returned an open hour while
\* another open hour is held by a confirmed booking
C14_Witness ==
    /\ last.op = "slots"
    /\ Len(view) > 0
    /\ \E i \in 1..Len(bookings) :
          /\ bookings[i].status = "confirmed"
          /\ getHours(bookings[i].scheduledStartTime) \in timeSlots["t1"].open
          /\ normalizedDate(bookings[i].scheduledStartTime) = 0
          /\ \A k \in 1..Len(view) :
                hourOf(view[k]) # getHours(bookings[i].scheduledStartTime)
    /\ \E ud \in unavailableDates : ud.unavailableDate = DAY
    /\ \A ud \in unavailableDates : ud.unavailableDate # 0

\* C15: the slots returned are in strictly ascending numeric hour order
\* (hour 9 before hour 10), no hour repeated.
C15_OpenSlotsAscending ==
    last.op = "slots" =>
        \A j, k \in 1..Len(view) : j < k => hourOf(view[j]) < hourOf(view[k])

\* the hours getTutorAvailableSlots returns for tutor T on the date of s
OpenSlots(T, s) ==
    LET slots == getTutorAvailableSlots(T, normalizedDate(s))
    IN  {slots[k] : k \in 1..Len(slots)}

\* C16: in every reachable state, for every tutor T and start instant s,
\* isTimeSlotAvailable(T, s) is true exactly when the hour of s is among
\* the open slots returned for T on the date of s.
C16_GateAgreesWithOpenSlots ==
    \A T \in Tutors, s \in ResolveStarts :
        isTimeSlotAvailable(T, s) <=> getHours(s) \in OpenSlots(T, s)

\* C17: once a booking is created for an open hour, the hour is absent from
\* the open slots of its tutor and date while the booking is pending or
\* confirmed; the hour comes back only in a step in which a booking of that
\* slot leaves pending and confirmed for rejected, cancelled or completed,
\* and such bookings do not keep it out.
C17_BookedHourStaysOut ==
    /\ \A T \in Tutors, s \in ResolveStarts :
          /\ getHours(s) \in HeldHours(T, s) => getHours(s) \notin OpenSlots(T, s)
          /\ (getHours(s) \notin HeldHours(T, s) /\ TemplateOpen(T, s) /\ ~Blackout(T, s))
                => getHours(s) \in OpenSlots(T, s)
    /\ [][<<timeSlots, unavailableDates, bookings>>' # <<timeSlots, unavailableDates, bookings>>
            => \A T \in Tutors, s \in ResolveStarts :
                  LET H == getHours(s) IN
                  /\ H \in HeldHours(T, s)' => H \notin OpenSlots(T, s)'
                  /\ (H \notin OpenSlots(T, s) /\ H \in OpenSlots(T, s)')
                        => \E j \in 1..Len(bookings) :
                              /\ bookings[j].tutorId = T
                              /\ normalizedDate(bookings[j].scheduledStartTime)
                                    = normalizedDate(s)
                              /\ getHours(bookings[j].scheduledStartTime) = H
                              /\ Active(j)
                              /\ bookings'[j].status \in Terminal
                  /\ (H \notin HeldHours(T, s)' /\ TemplateOpen(T, s)' /\ ~Blackout(T, s)')
                        => H \in OpenSlots(T, s)']_vars

\* a booking made for hour 9 has been completed and hour 9 is open again
C17_Witness ==
    /\ Len(bookings) > 0
    /\ bookings[1].status = "completed"
    /\ getHours(bookings[1].scheduledStartTime)
          \in OpenSlots(bookings[1].tutorId, bookings[1].scheduledStartTime)

\* C18: a student's create for an hour that is closed in the template, on a
\* blackout date, or held by a pending or confirmed booking is answered
\* slot_unavailable and inserts nothing; any other create inserts exactly
\* one booking, pending, with scheduledEndTime = scheduledStartTime + 1 hour.
C18_CreateChecksTheSlot ==
    [][\A user \in Users, T \in Tutors, s \in ResolveStarts :
          (last'.op = "create" /\ user.role = "student" /\ CreateBooking(user, T, s))
            => IF \/ ~TemplateOpen(T, s)
                  \/ Blackout(T, s)
                  \/ getHours(s) \in HeldHours(T, s)
               THEN last'.result = "slot_unavailable" /\ bookings' = bookings
               ELSE /\ last'.result = "created"
                    /\ Len(bookings') = Len(bookings) + 1
                    /\ \A k \in 1..Len(bookings) : bookings'[k] = bookings[k]
                    /\ LET b == bookings'[Len(bookings')]
                       IN  /\ b.status = "pending"
                           /\ b.tutorId = T /\ b.studentId = user.metaId
                           /\ b.scheduledStartTime = s
                           /\ b.scheduledEndTime = s + HOUR]_vars

\* the template of tutor T is what replaceAll(T, S) leaves: a row for each
\* of the 24 hours, open exactly for the hours of S
Replaced(T, S) ==
    \A h \in 0..(HoursPerDay - 1) :
        /\ h \in timeSlots[T].rows
        /\ h \in timeSlots[T].open <=> h \in S

\* C19: after a successful replaceAll(T, S) each of the 24 hours has a row
\* with isAvailable = (h in S), rows that were missing included, and a
\* replaceAll(T, S) on a template that is already so leaves it as it is.
C19_ReplaceAllSetsEveryHour ==
    [][\A user \in Users, S \in AvailabilityInputs :
          (/\ last'.op = "availability"
           /\ last'.result = "updated"
           /\ SetAvailability(user, S))
            => /\ Replaced(user.metaId, S)'
               /\ \A T \in Tutors : T # user.metaId => timeSlots'[T] = timeSlots[T]
               /\ Replaced(user.metaId, S) => timeSlots' = timeSlots]_vars

\* t2, who had no row, has replaced the template twice with hours 9 and 10
C19_Witness ==
    /\ last = [op |-> "availability", result |-> "updated"]
    /\ timeSlots["t2"] = [rows |-> 0..(HoursPerDay - 1), open |-> {9, 10}]
    /\ view = <<padStart(10), padStart(9)>>

\* what a read of the slots answers for a template, on a date without
\* blackout and without bookings
Rendered(slots) ==
    LET hours == sort(slots.rows \cap slots.open)
    IN  [k \in DOMAIN hours |-> padStart(hours[k])]

\* replaceAll(T, S) applied to a template as a whole
WholeNew(slots, S) == upsertLoop(slots, S, HoursPerDay)

\* C20: a read of the slots of T that runs while one replaceAll(T, S), and
\* no other request of T, is under way answers from the whole template the
\* replaceAll found or from the whole template it leaves.
C20_ReadSeesWholeTemplate ==
    [][\A T \in Tutors, r \in 1..MaxRequests :
          (/\ InFlight(r, "availability", "upsert")
           /\ reqs[r].user.metaId = T
           /\ \A q \in 1..Len(reqs) : q # r => reqs[q].user.metaId # T
           /\ last'.op = "slots"
           /\ GetAvailability(T, 0))
            => view' \in {Rendered(reqs[r].before),
                          Rendered(WholeNew(reqs[r].before, reqs[r].availableHours))}]_vars

\* C21: after setSlot(T, h, v), whether or not T has rows, hour h of T's
\* template is available exactly when v is true and the other 23 hours are
\* as they were.
C21_SetSlotSetsTheHour ==
    [][\A user \in Users, h \in SlotHours, v \in BOOLEAN :
          (/\ last'.op = "slot"
           /\ last'.result = "updated"
           /\ SetSlot(user, h, v))
            => /\ h \in timeSlots'[user.metaId].open <=> v
               /\ \A g \in (0..(HoursPerDay - 1)) \ {h} :
                     g \in timeSlots'[user.metaId].open
                         <=> g \in timeSlots[user.metaId].open]_vars

\* C22: after an account of a tutor is created, by either route, the tutor
\* has a row for each of the 24 hours, open exactly for the hours given at
\* creation and all closed when none are given.
C22_CreationMakesTheTemplate ==
    [][\A T \in Tutors, S \in CreateInputs :
          (/\ last'.op = "tutor"
           /\ last'.result = "created"
           /\ timeSlots[T].rows = {}
           /\ (CreateTutor(T, S) \/ AdminCreateTutor(T, S)))
            => Replaced(T, S)']_vars

\* C23: createTutorTimeSlots called for a tutor whose 24 rows exist does not
\* fail with a duplicate-row error, and leaves one row for each hour.
C23_InitializeTwiceIsSafe ==
    [][\A T \in Tutors :
          (/\ last'.op = "initialize"
           /\ timeSlots[T].rows = 0..(HoursPerDay - 1)
           /\ Initialize(T))
            => /\ last'.result = "ok"
               /\ timeSlots'[T].rows = 0..(HoursPerDay - 1)]_vars

\* C24: adding a blackout date for a tutor and date that have one already is
\* answered with a conflict error and leaves the blackout calendar as it was.
C24_DuplicateBlackoutIsConflict ==
    [][\A user \in SlotsCallers, date \in Dates :
          (/\ last'.op = "unavailable"
           /\ user.role = "tutor"
           /\ NewUnavailableDate(user, date) \in unavailableDates
           /\ AddUnavailableDate(user, date))
            => /\ last'.result = "conflict"
               /\ unavailableDates' = unavailableDates]_vars

\* the caller is the tutor of booking id
IsTutorOf(user, id) ==
    id \in 1..Len(bookings) /\ user.role = "tutor" /\ bookings[id].tutorId = user.metaId

\* a request that may change nothing gets the answer `result`
Refused(result) ==
    /\ last'.result = result
    /\ UNCHANGED <<bookings, sessions, messages>>

\* the answer to a caller who is not the party the operation asks for: a
\* known id is forbidden, and an unknown one is not found once the caller
\* has the role `roleOk` that the route asks for before it looks the id up
RefusedOther(known, roleOk) ==
    Refused(IF known \/ ~roleOk THEN "forbidden" ELSE "not_found")

\* C25: accept and reject change a booking only for the booking's tutor,
\* cancel only for its student or tutor, complete only for the tutor of the
\* session's booking; another caller of a known id is answered forbidden and
\* booking, session and messages stay as they are; an unknown id is answered
\* not found, except that accept and reject answer forbidden to a caller who
\* is not a tutor before they look the id up.
C25_OnlyThePartiesChange ==
    [][\A user \in Users, id \in TrackedIds :
          /\ (last'.op = "accept" /\ AcceptBooking(user, id) /\ ~IsTutorOf(user, id))
                => RefusedOther(id \in 1..Len(bookings), user.role = "tutor")
          /\ (last'.op = "reject" /\ RejectBooking(user, id) /\ ~IsTutorOf(user, id))
                => RefusedOther(id \in 1..Len(bookings), user.role = "tutor")
          /\ (/\ last'.op = "cancel" /\ CancelBooking(user, id)
              /\ ~(id \in 1..Len(bookings) /\ isParticipant(user, bookings[id])))
                => RefusedOther(id \in 1..Len(bookings), TRUE)
          /\ (/\ last'.op = "complete" /\ CompleteSession(user, id)
              /\ ~(id \in 1..Len(sessions) /\ IsTutorOf(user, sessions[id].bookingId)))
                => RefusedOther(id \in 1..Len(sessions), TRUE)]_vars

\* C25 as stated: every unknown id is answered not found, whoever calls.
C25_UnknownIdIsNotFound ==
    [][\A user \in Users, id \in TrackedIds :
          /\ (last'.op = "accept" /\ AcceptBooking(user, id) /\ id \notin 1..Len(bookings))
                => Refused("not_found")
          /\ (last'.op = "reject" /\ RejectBooking(user, id) /\ id \notin 1..Len(bookings))
                => Refused("not_found")
          /\ (last'.op = "cancel" /\ CancelBooking(user, id) /\ id \notin 1..Len(bookings))
                => Refused("not_found")
          /\ (last'.op = "complete" /\ CompleteSession(user, id) /\ id \notin 1..Len(sessions))
                => Refused("not_found")]_vars

\* a cancel was refused as forbidden on a confirmed booking with its session
C25_Witness ==
    /\ last = [op |-> "cancel", result |-> "forbidden"]
    /\ Len(bookings) = 1 /\ bookings[1].status = "confirmed"
    /\ Len(sessions) = 1

\* C26: in every reachable state a booking has at most one session and a
\* pending or rejected booking has none, and the status of a session only
\* moves from scheduled to active and from active to completed.
C26_SessionOnlyByConfirmation ==
    /\ [](\A b \in 1..Len(bookings) :
             /\ Cardinality(SessionsOf(b)) <= 1
             /\ bookings[b].status \in {"pending", "rejected"} => SessionsOf(b) = {})
    /\ [][\A s \in 1..Len(sessions) :
             sessions'[s].status # sessions[s].status
                => <<sessions[s].status, sessions'[s].status>>
                      \in {<<"scheduled", "active">>, <<"active", "completed">>}]_vars

\* request r has passed its read of the booking: it was let through to its
\* write
PassedRead(r) ==
    reqs[r].pc = "write" \/ reqs[r].result \in {"accepted", "rejected", "cancelled", "error"}

\* accept r and reject or cancel q of one booking have run concurrently, each
\* reading the booking as pending before the other wrote.  Both passed their
\* reads; for a reject that is enough, since either write would have made the
\* other's read fail, and for a cancel it is so when the cancel began first
\* (reqs is in the order of arrival).  A cancel that began after the accept
\* may have read the booking as confirmed, and is left out.
Raced(r, q) ==
    /\ r \in 1..Len(reqs) /\ q \in 1..Len(reqs)
    /\ reqs[r].op = "accept"
    /\ reqs[q].op \in {"reject", "cancel"}
    /\ reqs[q].id = reqs[r].id
    /\ PassedRead(r) /\ PassedRead(q)
    /\ reqs[q].op = "reject" \/ q < r

\* both are answered: one of them succeeded, the booking has its status, and
\* there is a session exactly when that status is confirmed
Settled(r, q) ==
    LET id == reqs[r].id
        accepted == reqs[r].result = "accepted"
        other == reqs[q].result \in {"rejected", "cancelled"}
    IN  /\ accepted # other
        /\ bookings[id].status = IF accepted THEN "confirmed" ELSE reqs[q].result
        /\ SessionsOf(id) # {} <=> bookings[id].status = "confirmed"

\* C27: when accept and cancel, or accept and reject, of one pending booking
\* run concurrently, then once both are answered exactly one of them has
\* succeeded, the booking is in that operation's status, and it has a session
\* exactly when that status is confirmed.
C27_OneOfTwoRacersWins ==
    \A r, q \in 1..MaxRequests :
        (Raced(r, q) /\ reqs[r].pc = "done" /\ reqs[q].pc = "done") => Settled(r, q)

\* C28: for every participant of a session and every instant, checkAccess
\* gives canStart exactly when a start by the same caller at that instant
\* moves the session from scheduled to active, and a start moves no session
\* at an instant whose access state is post_session or expired.
C28_CanStartIffStartActivates ==
    [][\A user \in Users, sid \in TrackedIds :
          (sid \in 1..Len(sessions) /\ isParticipant(user, bookingOf(sid)))
            => /\ accessOf(user, sid).canStart <=> startResult(user, sid) = "started"
               /\ (/\ last'.op = "start"
                   /\ StartSession(user, sid)
                   /\ accessOf(user, sid).accessStatus \in {"post_session", "expired"})
                    => sessions' = sessions]_vars

\* C29: once the booking of a session is cancelled, a start does not move the
\* session to active and a send stores no message for it, and in every
\* reachable state an active session belongs to a confirmed booking.
C29_CancelledSessionIsUnusable ==
    /\ [](\A sid \in 1..Len(sessions) :
             sessions[sid].status = "active" => bookingOf(sid).status = "confirmed")
    /\ [][\A user \in Users, sid \in TrackedIds :
             (sid \in 1..Len(sessions) /\ bookingOf(sid).status = "cancelled")
               => /\ (last'.op = "start" /\ StartSession(user, sid))
                        => sessions' = sessions
                  /\ (last'.op = "send" /\ SendMessage(user, sid))
                        => messages' = messages]_vars

\* the place of an access state in the order of the window
Rank(accessStatus) ==
    CASE accessStatus = "too_early" -> 1
      [] accessStatus = "pre_session" -> 2
      [] accessStatus = "during_session" -> 3
      [] accessStatus = "post_session" -> 4
      [] accessStatus = "expired" -> 5

\* C30: whatever is done and however the clock advances, the access state
\* checkAccess gives for a session never moves back in the order too_early,
\* pre_session, during_session, post_session, expired; so once it is expired
\* it stays expired.
C30_AccessStateNeverGoesBack ==
    [][\A user \in Users, sid \in TrackedIds :
          (/\ <<now, bookings, sessions>>' # <<now, bookings, sessions>>
           /\ sid \in 1..Len(sessions))
            => Rank(accessOf(user, sid).accessStatus)
                  <= Rank(accessOf(user, sid).accessStatus')]_vars

\* a session started and completed before its scheduled start has gone from
\* pre_session to post_session, and is expired now
C30_Witness ==
    /\ Len(sessions) = 1
    /\ sessions[1].status = "completed"
    /\ sessions[1].actualEndTime < bookingOf(1).scheduledStartTime
    /\ \A user \in Users : accessOf(user, 1).accessStatus = "expired"

============================================================================
